---- MODULE Spec2Model ----
(***************************************************************************)
(* A model of DependencyScanner.py: the dependency matcher                 *)
(* (find_dependency_match), the resolution loop (checkMissingReferences)   *)
(* with its optional copy into a destination directory, and the            *)
(* unreferenced-package query of main.                                     *)
(*                                                                         *)
(* Strings are sequences of one-character strings, so that split,          *)
(* startswith, endswith, isdigit, int and slicing are computed and not     *)
(* assumed.                                                                *)
(***************************************************************************)
EXTENDS Integers, Sequences, FiniteSets, TLC

VARIABLES
    pc,                   \* position of the program being run
    query,                \* SpecMatch: the dependency handed to the matcher
    match_file,           \* SpecMatch: what find_dependency_match returned
    sourceVarFiles,       \* the candidate pool, in glob order
    mainDir,              \* files found by the *.var glob under the main path
    presetFiles,          \* files found by the *.vap glob under Custom
    destMode,             \* "none", "sep" (own directory) or "main" (inside the main path)
    destDir,              \* files of a destination directory outside the main path
    mainVarList,          \* checkMissingReferences: identifiers of the main path
    mainDependencies,     \* checkMissingReferences: dependency -> dependents
    remaining,            \* keys of mainDependencies the loop has not reached yet
    missingRefs,
    foundRefs,
    alreadySatisfiedRefs,
    run,                  \* number of the current invocation of the program
    consulted,            \* dependencies handed to find_dependency_match in this run
    copyLog,              \* copy attempts of this run and the one before:
                          \* <<run, dependency, file, outcome>>
    created,              \* per file name, how often a copy wrote it into the destination
    clobbered,            \* names of destination files a copy wrote over
    destAtStart,          \* destination files as they were when the current run started
    noDependency          \* main: the unreferenced list

vars == <<pc, query, match_file, sourceVarFiles, mainDir, presetFiles, destMode,
          destDir, mainVarList, mainDependencies, remaining, missingRefs, foundRefs,
          alreadySatisfiedRefs, run, consulted, copyLog, created, clobbered,
          destAtStart, noDependency>>

(***************************************************************************)
(* Bounds of the model.                                                    *)
(***************************************************************************)
MaxPool == 3
MaxSource == 2
MaxRuns == 2

\* Python's None; as a match it is falsy, like the empty path.
None == <<>>

(***************************************************************************)
(* Characters and strings.                                                 *)
(***************************************************************************)
Digits == {"0", "1", "2", "3", "5"}

\* Code points, for Python's comparison of str.
Ord(c) ==
    CASE c = " " -> 32
      [] c = "." -> 46
      [] c = "/" -> 47
      [] c = "0" -> 48
      [] c = "1" -> 49
      [] c = "2" -> 50
      [] c = "3" -> 51
      [] c = "5" -> 53
      [] c = "A" -> 65
      [] c = "B" -> 66
      [] c = "F" -> 70
      [] c = "G" -> 71
      [] c = "H" -> 72
      [] c = "a" -> 97
      [] c = "b" -> 98
      [] c = "e" -> 101
      [] c = "f" -> 102
      [] c = "g" -> 103
      [] c = "h" -> 104
      [] c = "l" -> 108
      [] c = "o" -> 111
      [] c = "p" -> 112
      [] c = "q" -> 113
      [] c = "r" -> 114
      [] c = "s" -> 115
      [] c = "t" -> 116
      [] c = "u" -> 117
      [] c = "v" -> 118
      [] c = "x" -> 120

DigitValue(c) == Ord(c) - 48

\* s < t for two str.
RECURSIVE StrLess(_, _)
StrLess(s, t) ==
    IF t = <<>> THEN FALSE
    ELSE IF s = <<>> THEN TRUE
    ELSE IF Head(s) = Head(t) THEN StrLess(Tail(s), Tail(t))
    ELSE Ord(Head(s)) < Ord(Head(t))

startswith(s, prefix) ==
    /\ Len(prefix) <= Len(s)
    /\ SubSeq(s, 1, Len(prefix)) = prefix

endswith(s, suffix) ==
    /\ Len(suffix) <= Len(s)
    /\ SubSeq(s, Len(s) - Len(suffix) + 1, Len(s)) = suffix

\* s[n:]
SliceFrom(s, n) == SubSeq(s, n + 1, Len(s))

\* s[:-n]
DropLast(s, n) == SubSeq(s, 1, Len(s) - n)

isdigit(s) == Len(s) > 0 /\ \A i \in 1..Len(s) : s[i] \in Digits

isspace(s) == Len(s) > 0 /\ \A i \in 1..Len(s) : s[i] = " "

RECURSIVE int(_)
int(s) == IF s = <<>> THEN 0 ELSE 10 * int(DropLast(s, 1)) + DigitValue(s[Len(s)])

\* Index of the last occurrence of c in s, 0 when there is none.
RECURSIVE rfind(_, _)
rfind(s, c) ==
    IF s = <<>> THEN 0
    ELSE IF s[Len(s)] = c THEN Len(s)
    ELSE rfind(DropLast(s, 1), c)

\* s.split('.')
RECURSIVE split(_)
split(s) ==
    LET i == rfind(s, ".")
    IN  IF i = 0 THEN <<s>>
        ELSE Append(split(SubSeq(s, 1, i - 1)), SliceFrom(s, i))

\* '.'.join(parts)
RECURSIVE join(_)
join(parts) ==
    IF parts = <<>> THEN <<>>
    ELSE IF Len(parts) = 1 THEN parts[1]
    ELSE join(DropLast(parts, 1)) \o <<".">> \o parts[Len(parts)]

basename(path) == SliceFrom(path, rfind(path, "/"))

\* splitext(name)[0]: the name up to its last dot; leading dots start no extension.
splitext0(name) ==
    LET i == rfind(name, ".")
    IN  IF i = 0 \/ (\A k \in 1..i : name[k] = ".") THEN name
        ELSE SubSeq(name, 1, i - 1)

Identifier(path) == splitext0(basename(path))

LATEST == <<"l", "a", "t", "e", "s", "t">>
DOTLATEST == <<".">> \o LATEST
DOTVAR == <<".", "v", "a", "r">>

(***************************************************************************)
(* The matcher.                                                            *)
(***************************************************************************)
\* The decimal digits of n.
RECURSIVE str(_)
str(n) ==
    LET d == CHOOSE c \in Digits \cup {"4", "6", "7", "8", "9"} :
                 c = <<"0", "1", "2", "3", "4", "5", "6", "7", "8", "9">>[(n % 10) + 1]
    IN  IF n < 10 THEN <<d>> ELSE str(n \div 10) \o <<d>>

\* Mutant: the versions are compared as text.
TupleLessAsText(a, b) ==
    \/ StrLess(str(a[1]), str(b[1]))
    \/ a[1] = b[1] /\ StrLess(a[2], b[2])

\* Mutant: the sort has the version as its only key.
TupleLessByVersion(a, b) == a[1] < b[1]

\* Python's order of the tuples (version, path).
TupleLess(a, b) ==
    \/ a[1] < b[1]
    \/ a[1] = b[1] /\ StrLess(a[2], b[2])

\* list.sort(reverse = True), as an insertion sort that keeps equal items in order.
RECURSIVE InsertDesc(_, _)
InsertDesc(x, sorted) ==
    IF sorted = <<>> THEN <<x>>
    ELSE IF TupleLess(Head(sorted), x) THEN <<x>> \o sorted
    ELSE <<Head(sorted)>> \o InsertDesc(x, Tail(sorted))

RECURSIVE SortDesc(_)
SortDesc(files) ==
    IF files = <<>> THEN <<>>
    ELSE InsertDesc(files[Len(files)], SortDesc(DropLast(files, 1)))

\* Mutant: the last candidate whose identifier is the dependency.
RECURSIVE ExactMatchLast(_, _)
ExactMatchLast(dependency, files) ==
    IF files = <<>> THEN None
    ELSE IF Identifier(files[Len(files)]) = dependency THEN files[Len(files)]
    ELSE ExactMatchLast(dependency, DropLast(files, 1))

\* The first candidate, in pool order, whose identifier is the dependency.
RECURSIVE ExactMatch(_, _)
ExactMatch(dependency, files) ==
    IF files = <<>> THEN None
    ELSE IF Identifier(Head(files)) = dependency THEN Head(files)
    ELSE ExactMatch(dependency, Tail(files))

\* Mutant: no isdigit test, a suffix that is no number counts as version 0.
RECURSIVE MatchingFilesAnySuffix(_, _)
MatchingFilesAnySuffix(base_name, files) ==
    IF files = <<>> THEN <<>>
    ELSE LET source_file == files[Len(files)]
             source_name == Identifier(source_file)
             version_part == SliceFrom(source_name, Len(base_name) + 1)
             before == MatchingFilesAnySuffix(base_name, DropLast(files, 1))
         IN  IF startswith(source_name, base_name \o <<".">>)
             THEN Append(before, <<IF isdigit(version_part) THEN int(version_part) ELSE 0,
                                   source_file>>)
             ELSE before

\* matching_files: (version, file) of every candidate named base_name + '.' + digits.
RECURSIVE MatchingFiles(_, _)
MatchingFiles(base_name, files) ==
    IF files = <<>> THEN <<>>
    ELSE LET source_file == files[Len(files)]
             source_name == Identifier(source_file)
             version_part == SliceFrom(source_name, Len(base_name) + 1)
             before == MatchingFiles(base_name, DropLast(files, 1))
         IN  IF startswith(source_name, base_name \o <<".">>) /\ isdigit(version_part)
             THEN Append(before, <<int(version_part), source_file>>)
             ELSE before

\* matching_files.sort(reverse=True); return matching_files[0][1]
HighestVersion(matching_files) ==
    IF matching_files # <<>> THEN SortDesc(matching_files)[1][2] ELSE None

\* Mutant: the fallback only replaces an integer version.
AnyVersionMatchOfInteger(dependency, files) ==
    LET parts == split(dependency)
    IN  IF Len(parts) > 1 /\ isdigit(parts[Len(parts)])
        THEN HighestVersion(MatchingFiles(join(DropLast(parts, 1)), files))
        ELSE None

\* Lines 181-199: the dependency ends with '.latest'.
LatestMatch(dependency, files) ==
    IF endswith(dependency, DOTLATEST)
    THEN HighestVersion(MatchingFiles(DropLast(dependency, 7), files))
    ELSE None

\* Lines 202-220: any version of the dependency's base name.
AnyVersionMatch(dependency, files) ==
    LET parts == split(dependency)
    IN  IF Len(parts) > 1
        THEN HighestVersion(MatchingFiles(join(DropLast(parts, 1)), files))
        ELSE None

find_dependency_match(dependency, files) ==
    LET exact == ExactMatch(dependency, files)
        latest == LatestMatch(dependency, files)
    IN  IF exact # None THEN exact
        ELSE IF latest # None THEN latest
        ELSE AnyVersionMatch(dependency, files)

(***************************************************************************)
(* SpecMatch: the matcher on its own, over every pool of at most MaxPool   *)
(* files of PoolUniverse and every dependency of QueryUniverse.            *)
(***************************************************************************)
Path(dir, identifier) == dir \o <<"/">> \o identifier \o DOTVAR

F_1 == <<"F", ".", "1">>
F_01 == <<"F", ".", "0", "1">>
F_2 == <<"F", ".", "2">>
F_3 == <<"F", ".", "3">>
F_10 == <<"F", ".", "1", "0">>
F_x == <<"F", ".", "x">>
F_latest == <<"F">> \o DOTLATEST
F_2_latest == F_2 \o DOTLATEST
G_1 == <<"G", ".", "1">>
G_latest == <<"G">> \o DOTLATEST
H_latest == <<"H">> \o DOTLATEST

PoolUniverse ==
    { Path(<<"a">>, F_1), Path(<<"a">>, F_01), Path(<<"a">>, F_2), Path(<<"b">>, F_2),
      Path(<<"a">>, F_10), Path(<<"a">>, F_latest), Path(<<"a">>, F_x),
      Path(<<"a">>, G_1) }

QueryUniverse ==
    { F_latest, F_1, F_2, F_3, F_x, <<"F">>, <<"F", ".">>, F_2_latest, G_latest,
      H_latest, <<>> }

\* The lists glob can return: no file twice, any order.
Pools(universe, maxLen) ==
    UNION { { p \in [1..n -> universe] : \A i, j \in 1..n : i # j => p[i] # p[j] }
            : n \in 0..maxLen }

Range(f) == { f[i] : i \in DOMAIN f }

Idle ==
    /\ mainDir = {}
    /\ presetFiles = {}
    /\ destMode = "none"
    /\ destDir = {}
    /\ mainVarList = {}
    /\ mainDependencies = <<>>
    /\ remaining = {}
    /\ missingRefs = <<>>
    /\ foundRefs = <<>>
    /\ alreadySatisfiedRefs = <<>>
    /\ run = 0
    /\ consulted = {}
    /\ copyLog = {}
    /\ created = <<>>
    /\ clobbered = {}
    /\ destAtStart = {}
    /\ noDependency = {}

InitMatch ==
    /\ pc = "call"
    /\ query \in QueryUniverse
    /\ sourceVarFiles \in Pools(PoolUniverse, MaxPool)
    /\ match_file = None
    /\ Idle

Match ==
    /\ pc = "call"
    /\ match_file' = find_dependency_match(query, sourceVarFiles)
    /\ pc' = "returned"
    /\ UNCHANGED <<query, sourceVarFiles, mainDir, presetFiles, destMode, destDir,
                   mainVarList, mainDependencies, remaining, missingRefs, foundRefs,
                   alreadySatisfiedRefs, run, consulted, copyLog, created,
                   clobbered, destAtStart, noDependency>>

NextMatch == Match

SpecMatch == InitMatch /\ [][NextMatch]_vars

(***************************************************************************)
(* What the claims about the matcher speak of.                             *)
(***************************************************************************)
HasExact(dependency, files) ==
    \E i \in DOMAIN files : Identifier(files[i]) = dependency

HasDot(name) == \E i \in DOMAIN name : name[i] = "."

\* The name without its last dot-segment.
BaseOf(name) == SubSeq(name, 1, rfind(name, ".") - 1)

\* identifier = base + '.' + digits
IsVersionOf(identifier, base) ==
    /\ Len(identifier) > Len(base) + 1
    /\ SubSeq(identifier, 1, Len(base)) = base
    /\ identifier[Len(base) + 1] = "."
    /\ \A k \in (Len(base) + 2)..Len(identifier) : identifier[k] \in Digits

VersionIn(identifier, base) == int(SubSeq(identifier, Len(base) + 2, Len(identifier)))

Versioned(base, files) ==
    { i \in DOMAIN files : IsVersionOf(Identifier(files[i]), base) }

\* The file is a candidate of the base whose version no candidate exceeds.
IsHighest(file, base, files) ==
    \E i \in Versioned(base, files) :
        /\ file = files[i]
        /\ \A j \in Versioned(base, files) :
               VersionIn(Identifier(files[j]), base) <= VersionIn(Identifier(files[i]), base)

\* C1: a '.latest' dependency without an exact candidate gets a candidate
\* base.<digits> whose version is the numeric maximum of all such candidates.
C1_LatestIsNumericMaximum ==
    ( /\ pc = "returned"
      /\ endswith(query, DOTLATEST)
      /\ ~HasExact(query, sourceVarFiles)
      /\ Versioned(DropLast(query, 7), sourceVarFiles) # {} )
    => IsHighest(match_file, DropLast(query, 7), sourceVarFiles)

\* F.latest over F.2 and F.10 (and no F.latest file) returns F.10.
C1_Witness ==
    /\ pc = "returned"
    /\ query = F_latest
    /\ ~HasExact(query, sourceVarFiles)
    /\ {Path(<<"a">>, F_2), Path(<<"a">>, F_10)} \subseteq Range(sourceVarFiles)
    /\ match_file = Path(<<"a">>, F_10)

\* C2: when a candidate's identifier is the dependency, the first such candidate
\* in pool order is returned, whatever higher versions the pool holds.
C2_ExactFirstWins ==
    ( /\ pc = "returned"
      /\ HasExact(query, sourceVarFiles) )
    => \E i \in DOMAIN sourceVarFiles :
           /\ Identifier(sourceVarFiles[i]) = query
           /\ \A j \in 1..(i - 1) : Identifier(sourceVarFiles[j]) # query
           /\ match_file = sourceVarFiles[i]

\* F.2 over b/F.2, a/F.10, a/F.2 returns b/F.2.
C2_Witness ==
    /\ pc = "returned"
    /\ query = F_2
    /\ sourceVarFiles = <<Path(<<"b">>, F_2), Path(<<"a">>, F_10), Path(<<"a">>, F_2)>>
    /\ match_file = Path(<<"b">>, F_2)

\* C3: a dependency with a dot and no exact candidate gets the candidate
\* base.<digits> of the numerically highest version, base being the dependency
\* without its last segment, whatever that segment is.
C3_FallbackIsNumericMaximum ==
    ( /\ pc = "returned"
      /\ HasDot(query)
      /\ ~HasExact(query, sourceVarFiles)
      /\ Versioned(BaseOf(query), sourceVarFiles) # {} )
    => IsHighest(match_file, BaseOf(query), sourceVarFiles)

\* F.x (a last segment that is neither an integer nor latest) over F.2 and F.10
\* returns F.10.
C3_Witness ==
    /\ pc = "returned"
    /\ query = F_x
    /\ ~HasExact(query, sourceVarFiles)
    /\ {Path(<<"a">>, F_2), Path(<<"a">>, F_10)} \subseteq Range(sourceVarFiles)
    /\ match_file = Path(<<"a">>, F_10)

\* C4: no match is reported exactly when the pool has neither an exact candidate
\* nor a candidate base.<digits>; a returned candidate is a file of the pool.
C4_NoMatchIffNoCandidate ==
    pc = "returned" =>
        /\ match_file = None <=>
               /\ ~HasExact(query, sourceVarFiles)
               /\ HasDot(query) => Versioned(BaseOf(query), sourceVarFiles) = {}
        /\ match_file # None => match_file \in Range(sourceVarFiles)

\* F.latest over F.x and G.1 alone: no match.
C4_Witness ==
    /\ pc = "returned"
    /\ query = F_latest
    /\ sourceVarFiles = <<Path(<<"a">>, F_x), Path(<<"a">>, G_1)>>
    /\ match_file = None


(***************************************************************************)
(* The libraries of the resolution runs: the packages that may be          *)
(* installed under the main path, the presets under its Custom folder and  *)
(* the files of the source path.  A file of a directory is its name and    *)
(* its content; the content of an original file is named by its path.      *)
(***************************************************************************)
A_1 == <<"A", ".", "1">>
B_1 == <<"B", ".", "1">>
Go_1 == <<"G", "o", ".", "1">>
G_2 == <<"G", ".", "2">>
G_3 == <<"G", ".", "3">>
H_1 == <<"H", ".", "1">>

File(name, content) == [name |-> name, content |-> content]

Installed(identifier) == File(identifier \o DOTVAR, Path(<<"m">>, identifier))

MainUniverse == { Installed(A_1), Installed(B_1), Installed(Go_1) }

SourceUniverse == { Path(<<"s">>, G_2), Path(<<"t">>, G_2), Path(<<"s">>, H_1) }

Truncated == <<"truncated">>
Older == <<"older">>

\* A file the destination directory may hold before the first run.
DestUniverse == { File(G_2 \o DOTVAR, Older) }

Preset(name, occurences) == [name |-> name, occurences |-> occurences]

PresetUniverse == { Preset(<<"p">>, {H_1, G_latest}) }

\* What json.load gives for the meta.json of a package, by content: the keys of
\* its 'dependencies', or the error of an archive that cannot be read.
Manifest(error, dependencies) == [error |-> error, dependencies |-> dependencies]

getDependencies(content) ==
    CASE content = Path(<<"m">>, A_1) -> Manifest(FALSE, {G_latest, G_3, <<>>})
      [] content = Path(<<"m">>, B_1) -> Manifest(FALSE, {H_1, A_1, G_3, <<" ">>})
      [] content = Path(<<"s">>, G_2) -> Manifest(FALSE, {H_latest})
      [] content = Path(<<"t">>, G_2) -> Manifest(FALSE, {})
      [] content = Path(<<"s">>, H_1) -> Manifest(FALSE, {})
      [] content = Path(<<"u">>, F_1) -> Manifest(FALSE, {})
      [] content = Path(<<"u">>, F_x) -> Manifest(FALSE, {F_latest})
      [] content = Path(<<"u">>, G_2) -> Manifest(FALSE, {F_1, F_x \o DOTLATEST})
      [] content = Path(<<"u">>, <<"H">>) -> Manifest(FALSE, {G_3})
      [] OTHER -> Manifest(TRUE, {})

\* Mutant: a later package replaces the dependents recorded for a dependency.
getAllVarsLastWins(files) ==
    LET declaring(key) == { f \in files : /\ ~getDependencies(f.content).error
                                          /\ key \in getDependencies(f.content).dependencies }
        keys == UNION { getDependencies(f.content).dependencies :
                            f \in { g \in files : ~getDependencies(g.content).error } }
    IN  [ allVarList |-> { splitext0(f.name) : f \in files },
          allDependencies |->
              [ key \in keys |-> { (CHOOSE f \in declaring(key) : TRUE).name } ] ]

\* getAllVars: the identifiers of the files, and for every dependency a readable
\* manifest declares the basenames of the files declaring it.
getAllVars(files) ==
    LET declaring(key) == { f \in files : /\ ~getDependencies(f.content).error
                                          /\ key \in getDependencies(f.content).dependencies }
        keys == UNION { getDependencies(f.content).dependencies :
                            f \in { g \in files : ~getDependencies(g.content).error } }
    IN  [ allVarList |-> { splitext0(f.name) : f \in files },
          allDependencies |-> [ key \in keys |-> { f.name : f \in declaring(key) } ] ]

\* getPresetDependencies: for every name a preset refers to, the presets doing so.
getPresetDependencies(presets) ==
    [ key \in UNION { p.occurences : p \in presets } |->
          { p.name : p \in { q \in presets : key \in q.occurences } } ]

(***************************************************************************)
(* checkMissingReferences.                                                 *)
(***************************************************************************)
\* Mutant: the edges of the presets are merged into those of the manifests.
MainEdgesWithPresets(files, presets) ==
    LET ofVars == getAllVars(files).allDependencies
        ofPresets == getPresetDependencies(presets)
    IN  [ key \in DOMAIN ofVars \cup DOMAIN ofPresets |->
              (IF key \in DOMAIN ofVars THEN ofVars[key] ELSE {})
              \cup (IF key \in DOMAIN ofPresets THEN ofPresets[key] ELSE {}) ]

\* mainDependencies of line 227: what getAllVars(mainPath) returns.
MainEdges(files, presets) == getAllVars(files).allDependencies

\* Mutant: only the empty name is skipped.
IsSkippedWhenEmpty(dependency) == dependency = <<>>

\* Line 262: not dependency or dependency.isspace()
IsSkipped(dependency) == dependency = <<>> \/ isspace(dependency)

\* Mutant: a '.latest' dependency needs an installed name of base + '.'.
InstalledMatchDotted(var_name, dependency) ==
    \/ var_name = dependency
    \/ /\ endswith(dependency, DOTLATEST)
       /\ startswith(var_name, DropLast(dependency, 7) \o <<".">>)

\* Line 268.
InstalledMatch(var_name, dependency) ==
    \/ var_name = dependency
    \/ /\ endswith(dependency, DOTLATEST)
       /\ startswith(var_name, DropLast(dependency, 7))

\* The directory the copies go to.
Dest == IF destMode = "main" THEN mainDir ELSE destDir

\* Mutant: the destination is never looked at.
DestExistsNever(name) == FALSE

\* Line 294: exists(dest_file)
DestExists(name) == \E f \in Dest : f.name = name

\* The outcomes of shutil.copy2: done; failed before the destination file was
\* made; failed after it was made (its content is then not that of the source).
CopyOutcomes == { "copied", "no_file", "truncated" }

CopyFailed(outcome) == outcome # "copied"

\* The destination directory after copy2(match, dest_file) ended with the outcome.
DestAfterCopy(outcome, match) ==
    LET name == basename(match)
        others == { f \in Dest : f.name # name }
    IN  CASE outcome = "no_file" -> Dest
          [] outcome = "truncated" -> others \cup { File(name, Truncated) }
          [] OTHER -> others \cup { File(name, match) }

\* Mutant: a dependency whose copy failed is not recorded.
FoundAfterOnlyIfCopied(outcome, dependency, match) ==
    IF CopyFailed(outcome) THEN foundRefs
    ELSE foundRefs @@ (dependency :> [file |-> match, dependents |-> mainDependencies[dependency]])

\* Lines 286-289; the assignment precedes the copy, whose errors are caught.
FoundAfter(outcome, dependency, match) ==
    foundRefs @@ (dependency :> [file |-> match, dependents |-> mainDependencies[dependency]])

Emptied == [ key \in {} |-> {} ]

\* The lists of the source glob in the order of their paths: no dependency of
\* these libraries has two exact candidates, so the order of the pool decides
\* nothing here (SpecMatch runs the matcher over every order).
PoolsByPath(universe, maxLen) ==
    { p \in Pools(universe, maxLen) :
          \A i, j \in DOMAIN p : i < j => StrLess(p[i], p[j]) }

InitRuns ==
    /\ pc = "start"
    /\ run = 1
    /\ mainDir \in SUBSET MainUniverse
    /\ presetFiles = PresetUniverse
    /\ sourceVarFiles \in PoolsByPath(SourceUniverse, MaxSource)
    /\ destMode \in {"none", "sep", "main"}
    /\ destDir \in IF destMode = "sep" THEN SUBSET DestUniverse ELSE {{}}
    /\ mainVarList = {}
    /\ mainDependencies = Emptied
    /\ remaining = {}
    /\ missingRefs = Emptied
    /\ foundRefs = Emptied
    /\ alreadySatisfiedRefs = Emptied
    /\ consulted = {}
    /\ copyLog = {}
    /\ created = Emptied
    /\ clobbered = {}
    /\ destAtStart = {}
    /\ query = <<>>
    /\ match_file = None
    /\ noDependency = {}

inputVars == <<sourceVarFiles, presetFiles, destMode, query, match_file, noDependency>>
historyVars == <<copyLog, created, clobbered, destAtStart>>
dirVars == <<mainDir, destDir>>
refVars == <<missingRefs, foundRefs, alreadySatisfiedRefs>>

\* Lines 225-257: the scans of both paths and the empty result maps.
Scan ==
    /\ pc = "start"
    /\ mainVarList' = getAllVars(mainDir).allVarList
    /\ mainDependencies' = MainEdges(mainDir, presetFiles)
    /\ remaining' = DOMAIN mainDependencies'
    /\ missingRefs' = Emptied
    /\ foundRefs' = Emptied
    /\ alreadySatisfiedRefs' = Emptied
    /\ consulted' = {}
    /\ destAtStart' = Dest
    /\ copyLog' = { e \in copyLog : e[1] = run - 1 }
    /\ pc' = "loop"
    /\ UNCHANGED <<inputVars, created, clobbered, dirVars, run>>

\* Lines 262-263.
SkipEmpty ==
    /\ pc = "loop"
    /\ \E dependency \in remaining :
        /\ IsSkipped(dependency)
        /\ remaining' = remaining \ {dependency}
    /\ UNCHANGED <<pc, inputVars, historyVars, dirVars, refVars, run, consulted,
                   mainVarList, mainDependencies>>

\* Lines 265-279; mainVarList is a set, any matching name may come first.
AlreadyExists ==
    /\ pc = "loop"
    /\ \E dependency \in remaining :
        /\ ~IsSkipped(dependency)
        /\ \E var_name \in mainVarList :
            /\ InstalledMatch(var_name, dependency)
            /\ alreadySatisfiedRefs' = alreadySatisfiedRefs @@
                   (dependency :> [satisfied_by |-> var_name,
                                   dependents |-> mainDependencies[dependency]])
        /\ remaining' = remaining \ {dependency}
    /\ UNCHANGED <<pc, inputVars, historyVars, dirVars, missingRefs, foundRefs, run,
                   consulted, mainVarList, mainDependencies>>

Unsatisfied(dependency) ==
    /\ ~IsSkipped(dependency)
    /\ \A var_name \in mainVarList : ~InstalledMatch(var_name, dependency)

\* Lines 282-294: a match, and no copy is asked for or the destination has the name.
FoundKept ==
    /\ pc = "loop"
    /\ \E dependency \in remaining :
        LET match == find_dependency_match(dependency, sourceVarFiles)
        IN  /\ Unsatisfied(dependency)
            /\ match # None
            /\ destMode = "none" \/ DestExists(basename(match))
            /\ foundRefs' = FoundAfter("copied", dependency, match)
            /\ consulted' = consulted \cup {dependency}
            /\ remaining' = remaining \ {dependency}
    /\ UNCHANGED <<pc, inputVars, historyVars, dirVars, missingRefs,
                   alreadySatisfiedRefs, run, mainVarList, mainDependencies>>

\* Lines 282-299: a match, copied into the destination, with any outcome of copy2.
FoundCopied ==
    /\ pc = "loop"
    /\ \E dependency \in remaining, outcome \in CopyOutcomes :
        LET match == find_dependency_match(dependency, sourceVarFiles)
            name == basename(match)
            after == DestAfterCopy(outcome, match)
        IN  /\ Unsatisfied(dependency)
            /\ match # None
            /\ destMode # "none"
            /\ ~DestExists(name)
            /\ foundRefs' = FoundAfter(outcome, dependency, match)
            /\ IF destMode = "main"
               THEN mainDir' = after /\ UNCHANGED destDir
               ELSE destDir' = after /\ UNCHANGED mainDir
            /\ copyLog' = copyLog \cup {<<run, dependency, match, outcome>>}
            /\ created' = IF outcome = "no_file" THEN created
                          ELSE IF name \in DOMAIN created
                          THEN [created EXCEPT ![name] = @ + 1]
                          ELSE created @@ (name :> 1)
            /\ clobbered' = IF outcome # "no_file" /\ (\E f \in Dest : f.name = name)
                            THEN clobbered \cup {name} ELSE clobbered
            /\ consulted' = consulted \cup {dependency}
            /\ remaining' = remaining \ {dependency}
    /\ UNCHANGED <<pc, inputVars, destAtStart, missingRefs, alreadySatisfiedRefs, run,
                   mainVarList, mainDependencies>>

\* Lines 300-302.
NotFound ==
    /\ pc = "loop"
    /\ \E dependency \in remaining :
        /\ Unsatisfied(dependency)
        /\ find_dependency_match(dependency, sourceVarFiles) = None
        /\ missingRefs' = missingRefs @@ (dependency :> mainDependencies[dependency])
        /\ consulted' = consulted \cup {dependency}
        /\ remaining' = remaining \ {dependency}
    /\ UNCHANGED <<pc, inputVars, historyVars, dirVars, foundRefs, alreadySatisfiedRefs,
                   run, mainVarList, mainDependencies>>

\* Lines 307-320: the loop is over, the maps are returned.
Return ==
    /\ pc = "loop"
    /\ remaining = {}
    /\ pc' = "done"
    /\ UNCHANGED <<inputVars, historyVars, dirVars, refVars, run,
                   consulted, remaining, mainVarList, mainDependencies>>

\* The program is started again on the same paths.
RunAgain ==
    /\ pc = "done"
    /\ run < MaxRuns
    /\ run' = run + 1
    /\ pc' = "start"
    /\ UNCHANGED <<inputVars, historyVars, dirVars, refVars, consulted, remaining,
                   mainVarList, mainDependencies>>

Next ==
    \/ Scan
    \/ SkipEmpty
    \/ AlreadyExists
    \/ FoundKept
    \/ FoundCopied
    \/ NotFound
    \/ Return
    \/ RunAgain

Spec == InitRuns /\ [][Next]_vars


(***************************************************************************)
(* What the claims about the resolution runs speak of.                     *)
(***************************************************************************)
NonBlank(name) == \E i \in DOMAIN name : name[i] # " "

Satisfied == DOMAIN alreadySatisfiedRefs
Resolved == DOMAIN foundRefs
Missing == DOMAIN missingRefs
Classified == Satisfied \cup Resolved \cup Missing

InLoop == pc \in {"loop", "done"}

\* The dependencies the loop of the current run has gone past.
Processed == DOMAIN mainDependencies \ remaining

\* identifier = dependency, or dependency = base + '.latest' and identifier
\* begins with base.
Satisfies(identifier, dependency) ==
    \/ identifier = dependency
    \/ \E base \in { SubSeq(identifier, 1, n) : n \in 0..Len(identifier) } :
           dependency = base \o DOTLATEST

\* The class a dependency belongs to by the installed names and the source pool.
ClassOf(dependency) ==
    IF \E identifier \in mainVarList : Satisfies(identifier, dependency)
    THEN "satisfied"
    ELSE IF \/ HasExact(dependency, sourceVarFiles)
            \/ /\ HasDot(dependency)
               /\ Versioned(BaseOf(dependency), sourceVarFiles) # {}
    THEN "resolved"
    ELSE "missing"

\* The files of the main path the scan of the current run has read.
Scanned == { f \in mainDir : splitext0(f.name) \in mainVarList }

\* The names the readable manifests of the files declare.
Declared(files) ==
    { d \in UNION { getDependencies(f.content).dependencies : f \in files } :
          \E f \in files : /\ ~getDependencies(f.content).error
                           /\ d \in getDependencies(f.content).dependencies }

FailedCopies(r) == { e \in copyLog : e[1] = r /\ e[4] # "copied" }

\* C5: the three maps never share a key; when the loop is over every name of
\* mainDependencies that is not blank is a key of one of them, and no blank one is.
C5_ExactlyOneClass ==
    /\ Satisfied \cap Resolved = {}
    /\ Satisfied \cap Missing = {}
    /\ Resolved \cap Missing = {}
    /\ pc = "done" =>
           \A d \in DOMAIN mainDependencies : d \in Classified <=> NonBlank(d)

\* A finished run over the empty and the one-space name, with all three classes used.
C5_Witness ==
    /\ pc = "done"
    /\ {<<>>, <<" ">>} \subseteq DOMAIN mainDependencies
    /\ Satisfied # {}
    /\ Resolved # {}
    /\ Missing # {}

\* C6 as claimed: every non-blank name a preset refers to is classified.
C6_PresetNamesAreClassified ==
    pc = "done" =>
        \A p \in presetFiles : \A d \in p.occurences : NonBlank(d) => d \in Classified

\* C6, amended: the classified names are exactly the non-blank names the readable
\* manifests of the scanned packages declare; a name only presets refer to is in
\* none of the three maps.
C6_OnlyManifestNamesAreClassified ==
    pc = "done" =>
        /\ Classified = { d \in Declared(Scanned) : NonBlank(d) }
        /\ \A p \in presetFiles : \A d \in p.occurences :
               d \notin Declared(Scanned) => d \notin Classified

\* The preset refers to H.1, no manifest declares it, and the finished run has
\* classified other names but not H.1.
C6_Witness ==
    /\ pc = "done"
    /\ \E p \in presetFiles : H_1 \in p.occurences
    /\ H_1 \notin Declared(Scanned)
    /\ H_1 \notin Classified
    /\ Classified # {}

\* C7: a processed non-blank dependency is AlreadySatisfied exactly when an
\* installed identifier equals it or, for base.latest, begins with base; then the
\* matcher was not called for it, it is in no other map, and the recorded
\* identifier is such an installed one.
C7_SatisfiedIffInstalled ==
    InLoop =>
        \A d \in Processed : NonBlank(d) =>
            /\ d \in Satisfied <=> \E identifier \in mainVarList : Satisfies(identifier, d)
            /\ d \in Satisfied =>
                   /\ d \notin consulted
                   /\ d \notin Resolved \cup Missing
                   /\ alreadySatisfiedRefs[d].satisfied_by \in mainVarList
                   /\ Satisfies(alreadySatisfiedRefs[d].satisfied_by, d)

\* G.latest is satisfied by Go.1 (which begins with G), A.1 by A.1, while the
\* source holds G.2 and was not asked for G.latest.
C7_Witness ==
    /\ pc = "done"
    /\ {G_latest, A_1} \subseteq Satisfied
    /\ alreadySatisfiedRefs[G_latest].satisfied_by = Go_1
    /\ alreadySatisfiedRefs[A_1].satisfied_by = A_1
    /\ HasExact(G_2, sourceVarFiles)
    /\ G_latest \notin consulted

NeverOverwritten ==
    /\ clobbered = {}
    /\ \A name \in DOMAIN created : created[name] <= 1

C9_CopyFailureKeepsClasses ==
    InLoop =>
        /\ \A e \in FailedCopies(run) :
               /\ e[2] \in Resolved
               /\ e[2] \notin Satisfied \cup Missing
               /\ foundRefs[e[2]].file = e[3]
               /\ e[3] \in Range(sourceVarFiles)
               /\ foundRefs[e[2]].dependents = mainDependencies[e[2]]
        /\ FailedCopies(run) # {} =>
               \A d \in Processed : NonBlank(d) =>
                   /\ d \in Satisfied <=> ClassOf(d) = "satisfied"
                   /\ d \in Resolved <=> ClassOf(d) = "resolved"
                   /\ d \in Missing <=> ClassOf(d) = "missing"

\* The copy for G.latest failed; G.latest and G.3 are Resolved, H.1 is Missing.
C9_Witness ==
    /\ pc = "done"
    /\ \E e \in FailedCopies(run) : e[2] = G_latest
    /\ {G_latest, G_3} \subseteq Resolved
    /\ H_1 \in Missing


(***************************************************************************)
(* SpecUnref: the unreferenced-package query of main (lines 456-484, no    *)
(* name given), over every library of UnrefUniverse and UnrefPresets.      *)
(***************************************************************************)
Library(identifier) == File(identifier \o DOTVAR, Path(<<"u">>, identifier))

UnrefUniverse == { Library(F_1), Library(F_x), Library(G_2), Library(<<"H">>) }

UnrefPresets ==
    { Preset(<<"q", "1">>, {F_1, G_2}),
      Preset(<<"q", "2">>, {H_latest}),
      Preset(<<"q", "3">>, {F_x}) }

\* str.lower
lower(s) ==
    [ i \in DOMAIN s |->
          CASE s[i] = "A" -> "a"
            [] s[i] = "B" -> "b"
            [] s[i] = "F" -> "f"
            [] s[i] = "G" -> "g"
            [] s[i] = "H" -> "h"
            [] OTHER -> s[i] ]

\* sorted(list(names), key=str.lower); names of one key keep the order of the
\* set's iteration, which is any.
RECURSIVE SortedByLower(_)
SortedByLower(names) ==
    IF names = {} THEN <<>>
    ELSE LET first == CHOOSE n \in names :
                          \A m \in names : ~StrLess(lower(m), lower(n))
         IN  <<first>> \o SortedByLower(names \ {first})

\* Mutant: only the name itself is looked up.
check_name_exact(varName, dependenciesList) == varName \in dependenciesList

\* Lines 24-30.
check_name_variation(varName, dependenciesList) ==
    LET parts == split(varName)
        baseName == IF isdigit(parts[Len(parts)]) \/ parts[Len(parts)] = LATEST
                    THEN join(DropLast(parts, 1))
                    ELSE varName
    IN  varName \in dependenciesList \/ baseName \o DOTLATEST \in dependenciesList

\* Mutant: the two lists are united.
UnreferencedByEither(allVarList, allDepVars, allDepVarsPresets) ==
    LET noDependencyVar == { var \in allVarList : ~check_name_variation(var, allDepVars) }
        noDependencyPreset ==
            { var \in allVarList : ~check_name_variation(var, allDepVarsPresets) }
    IN  SortedByLower(noDependencyVar \cup noDependencyPreset)

\* Lines 473-475.
Unreferenced(allVarList, allDepVars, allDepVarsPresets) ==
    LET noDependencyVar == { var \in allVarList : ~check_name_variation(var, allDepVars) }
        noDependencyPreset ==
            { var \in allVarList : ~check_name_variation(var, allDepVarsPresets) }
    IN  SortedByLower(noDependencyVar \cap noDependencyPreset)

InitUnref ==
    /\ pc = "query"
    /\ mainDir \in SUBSET UnrefUniverse
    /\ presetFiles \in SUBSET UnrefPresets
    /\ noDependency = <<>>
    /\ sourceVarFiles = <<>>
    /\ query = <<>>
    /\ match_file = None
    /\ destMode = "none"
    /\ destDir = {}
    /\ mainVarList = {}
    /\ mainDependencies = Emptied
    /\ remaining = {}
    /\ missingRefs = Emptied
    /\ foundRefs = Emptied
    /\ alreadySatisfiedRefs = Emptied
    /\ run = 1
    /\ consulted = {}
    /\ copyLog = {}
    /\ created = Emptied
    /\ clobbered = {}
    /\ destAtStart = {}

\* Lines 456-475: both mappings are built and the list is computed.
ListUnreferenced ==
    /\ pc = "query"
    /\ LET scan == getAllVars(mainDir)
           allDepVars == DOMAIN scan.allDependencies
           allDepVarsPresets == DOMAIN getPresetDependencies(presetFiles)
       IN  noDependency' = Unreferenced(scan.allVarList, allDepVars, allDepVarsPresets)
    /\ pc' = "listed"
    /\ UNCHANGED <<query, match_file, sourceVarFiles, mainDir, presetFiles, destMode,
                   destDir, mainVarList, mainDependencies, remaining, missingRefs,
                   foundRefs, alreadySatisfiedRefs, run, consulted, copyLog, created,
                   clobbered, destAtStart>>

NextUnref == ListUnreferenced

SpecUnref == InitUnref /\ [][NextUnref]_vars

\* The name without a last segment that is an integer or 'latest'.
BaseName(identifier) ==
    LET last == SliceFrom(identifier, rfind(identifier, "."))
    IN  IF isdigit(last) \/ last = LATEST THEN BaseOf(identifier) ELSE identifier

ManifestKeys == Declared(mainDir)
PresetKeys == UNION { p.occurences : p \in presetFiles }
InstalledNames == { SubSeq(f.name, 1, Len(f.name) - Len(DOTVAR)) : f \in mainDir }

\* C10: an installed package is listed exactly when neither it nor its base
\* name + '.latest' is a key of the manifest mapping, and neither is a key of the
\* preset mapping.
C10_ListedIffInNeitherMapping ==
    pc = "listed" =>
        /\ Range(noDependency) \subseteq InstalledNames
        /\ \A identifier \in InstalledNames :
               identifier \in Range(noDependency) <=>
                   /\ identifier \notin ManifestKeys
                   /\ BaseName(identifier) \o DOTLATEST \notin ManifestKeys
                   /\ identifier \notin PresetKeys
                   /\ BaseName(identifier) \o DOTLATEST \notin PresetKeys

\* H is referred to by a preset only (as H.latest) and F.1 by a manifest only (as
\* F.latest): neither is listed, while G.2 is.
C10_Witness ==
    /\ pc = "listed"
    /\ {<<"H">>, F_1, G_2} \subseteq InstalledNames
    /\ H_latest \in PresetKeys
    /\ {<<"H">>, H_latest} \cap ManifestKeys = {}
    /\ F_latest \in ManifestKeys
    /\ {F_1, F_latest} \cap PresetKeys = {}
    /\ noDependency = <<G_2>>


(***************************************************************************)
(* The dependents recorded for a missing dependency.                       *)
(***************************************************************************)
\* The scanned packages whose readable manifest declares the dependency.
Declaring(dependency) ==
    { f \in Scanned : /\ ~getDependencies(f.content).error
                      /\ dependency \in getDependencies(f.content).dependencies }

\* The file name without the package extension.
PackageIdentifier(f) == SubSeq(f.name, 1, Len(f.name) - Len(DOTVAR))

MissingByInputs(d) == NonBlank(d) /\ ClassOf(d) = "missing"

\* C11 as claimed: a processed dependency that no installed identifier satisfies
\* and no source candidate matches is Missing, and its dependents are the
\* identifiers (extension stripped) of the packages declaring it.
C11_DependentsAreIdentifiers ==
    InLoop =>
        \A d \in Processed : MissingByInputs(d) =>
            /\ d \in Missing
            /\ missingRefs[d] = { PackageIdentifier(f) : f \in Declaring(d) }

\* C11, amended: such a dependency is Missing, and its dependents are the file
\* names, package extension included, of the packages declaring it, each once.
C11_DependentsAreFileNames ==
    InLoop =>
        \A d \in Processed : MissingByInputs(d) =>
            /\ d \in Missing
            /\ Declaring(d) # {}
            /\ missingRefs[d] = { f.name : f \in Declaring(d) }

\* G.3 is declared by A.1 and by B.1, nothing installed or in the source matches
\* it, and it is Missing with the dependents A.1.var and B.1.var.
C11_Witness ==
    /\ pc = "done"
    /\ G_3 \in Missing
    /\ Cardinality(Declaring(G_3)) = 2
    /\ missingRefs[G_3] = { A_1 \o DOTVAR, B_1 \o DOTVAR }


(***************************************************************************)
(* The matcher and the order of the pool.                                  *)
(***************************************************************************)
DistinctIdentifiers(files) ==
    \A i, j \in DOMAIN files : i # j => Identifier(files[i]) # Identifier(files[j])

\* Every order of the files of the pool.
Orderings(files) ==
    { p \in Pools(Range(files), Len(files)) : Len(p) = Len(files) }

\* C12: over a pool of pairwise distinct identifiers the matcher returns the
\* same file for every order of the pool.
C12_ResultIgnoresPoolOrder ==
    (pc = "returned" /\ DistinctIdentifiers(sourceVarFiles)) =>
        \A p \in Orderings(sourceVarFiles) :
            find_dependency_match(query, p) = match_file

\* F.latest over F.01 before F.1, both of version 1: F.1 is returned, as it is
\* with F.1 before F.01.
C12_Witness ==
    /\ pc = "returned"
    /\ query = F_latest
    /\ sourceVarFiles = <<Path(<<"a">>, F_01), Path(<<"a">>, F_1)>>
    /\ match_file = Path(<<"a">>, F_1)
    /\ find_dependency_match(query, <<Path(<<"a">>, F_1), Path(<<"a">>, F_01)>>)
           = Path(<<"a">>, F_1)

====
